---- MODULE Spec2Model ----
(***************************************************************************)
(* Weather-Forecast-ML-System: the feature-engineering / ensemble-training *)
(* / recursive-forecast pipeline (model/train.py), the model registry      *)
(* service (app/services/model_registry.py), the application lifespan      *)
(* (main.py) and the forecast and model-management routers.                *)
(*                                                                         *)
(* Data abstraction.  A data frame is a record [cols, rows]: cols is the   *)
(* ordered list of column names, rows the ordered list of rows.  A cell is *)
(* tracked by whether it is defined (a number) or undefined (NaN): a row   *)
(* carries the set of its undefined columns.  Column names are triples     *)
(* <<kind, base, parameter>>, so that "temp_max_lag_7" is                  *)
(* <<"lag", "temp_max", 7>> and the raw column "temp_max" is               *)
(* <<"raw", "temp_max", 0>>.  Dates are day numbers.                       *)
(***************************************************************************)
EXTENDS Integers, Sequences, FiniteSets, TLC

\* ------------------------------------------------------------------------
\* Bounds of the model (not program constants)
\* ------------------------------------------------------------------------
MaxRows == 19
MaxRuns == 2
MaxHorizon == 3

\* ------------------------------------------------------------------------
\* Generic helpers on sequences
\* ------------------------------------------------------------------------
Range(s) == {s[i] : i \in 1..Len(s)}

RECURSIVE Flatten(_)
Flatten(ss) == IF Len(ss) = 0 THEN <<>> ELSE Head(ss) \o Flatten(Tail(ss))

MapSeq(s, Op(_)) == [i \in 1..Len(s) |-> Op(s[i])]

\* ------------------------------------------------------------------------
\* Column names
\* ------------------------------------------------------------------------
Raw(c) == <<"raw", c, 0>>

DateCol == Raw("date")

weather_cols == <<"temp_max", "temp_min", "humidity", "pressure", "wind_speed", "precipitation">>

target_columns == <<"temp_max", "temp_min", "precipitation", "humidity", "wind_speed">>

lags == <<1, 2, 3, 7>>

windows == <<3, 7, 14>>

roll_stats == <<"roll_mean", "roll_std", "roll_max", "roll_min">>

temporal_names == <<"day_of_year", "day_of_week", "month", "quarter", "week_of_year", "is_weekend", "sin_day", "cos_day", "sin_month", "cos_month", "sin_dow", "cos_dow">>

\* the columns of generate_synthetic_training_data, in the order of its dict
synthetic_cols == <<"date", "temp_max", "temp_min", "humidity", "pressure", "wind_speed", "precipitation", "cloud_cover", "latitude", "longitude">>

HasCol(cols, c) == Raw(c) \in Range(cols)

\* ------------------------------------------------------------------------
\* WeatherFeatureEngineer
\* A frame before dropna: rows are [date, src, nan], src the index of the
\* input row and nan the set of columns whose cell is undefined.
\* ------------------------------------------------------------------------

\* create_temporal_features: twelve columns derived from the date, all
\* defined (the date itself is always a valid timestamp in this model)
create_temporal_features(df) ==
    [df EXCEPT !.cols = df.cols \o MapSeq(temporal_names, LAMBDA t : <<"temporal", t, 0>>)]

\* df[col].shift(lag) at row i: undefined in the first `lag` rows and
\* wherever the source cell is undefined
LagNaN(df, col, lag, i) ==
    \/ i - lag < 1
    \/ Raw(col) \in df.rows[i - lag].nan

create_lag_features(df, cols, lagList) ==
    [cols |-> df.cols \o Flatten(MapSeq(cols, LAMBDA c : MapSeq(lagList, LAMBDA k : <<"lag", c, k>>))),
     rows |-> [i \in 1..Len(df.rows) |->
                 [df.rows[i] EXCEPT !.nan = @ \cup
                     {<<"lag", c, k>> : <<c, k>> \in
                        {p \in Range(cols) \X Range(lagList) : LagNaN(df, p[1], p[2], i)}}]]]

\* a rolling window that would need one row more than its width
RollNaN_OffByOne(df, col, window, i) ==
    \/ i <= window
    \/ \E j \in (i - window + 1)..i : Raw(col) \in df.rows[j].nan

\* df[col].rolling(window): min_periods defaults to the window, so the
\* statistic is defined only when the window is full and holds no
\* undefined cell
RollNaN(df, col, window, i) ==
    \/ i < window
    \/ \E j \in (i - window + 1)..i : Raw(col) \in df.rows[j].nan

create_rolling_features(df, cols) ==
    [cols |-> df.cols \o Flatten(MapSeq(cols, LAMBDA c :
                  Flatten(MapSeq(windows, LAMBDA w : MapSeq(roll_stats, LAMBDA s : <<s, c, w>>))))),
     rows |-> [i \in 1..Len(df.rows) |->
                 [df.rows[i] EXCEPT !.nan = @ \cup
                     {<<s, p[1], p[2]>> : <<s, p>> \in
                        Range(roll_stats) \X
                        {q \in Range(cols) \X Range(windows) : RollNaN(df, q[1], q[2], i)}}]]]

\* create_weather_indices: each index only when its source columns exist.
\* wind_speed ** 0.16 is undefined for a negative wind speed.
IndexCols(cols) ==
    (IF HasCol(cols, "temp_max") /\ HasCol(cols, "humidity")
        THEN <<(<<"index", "heat_index", 0>>)>> ELSE <<>>)
    \o (IF HasCol(cols, "temp_max") /\ HasCol(cols, "temp_min")
        THEN <<(<<"index", "temp_range", 0>>), (<<"index", "temp_avg", 0>>)>> ELSE <<>>)
    \o (IF HasCol(cols, "temp_min") /\ HasCol(cols, "wind_speed")
        THEN <<(<<"index", "wind_chill", 0>>)>> ELSE <<>>)

IndexNaN(row, name) ==
    CASE name = "heat_index" -> Raw("temp_max") \in row.nan \/ Raw("humidity") \in row.nan
      [] name = "temp_range" -> Raw("temp_max") \in row.nan \/ Raw("temp_min") \in row.nan
      [] name = "temp_avg"   -> Raw("temp_max") \in row.nan \/ Raw("temp_min") \in row.nan
      [] name = "wind_chill" -> Raw("temp_min") \in row.nan \/ Raw("wind_speed") \in row.nan
                                \/ row.neg

create_weather_indices(df) ==
    [cols |-> df.cols \o IndexCols(df.cols),
     rows |-> [i \in 1..Len(df.rows) |->
                 [df.rows[i] EXCEPT !.nan = @ \cup
                     {c \in Range(IndexCols(df.cols)) : IndexNaN(df.rows[i], c[2])}]]]

\* dropna(how='all'): drops a row only when every cell is undefined
dropna_HowAll(df) ==
    [df EXCEPT !.rows = SelectSeq(df.rows, LAMBDA r : r.nan # Range(df.cols))]

\* DataFrame.dropna(): drops every row that has an undefined cell
dropna(df) ==
    [df EXCEPT !.rows = SelectSeq(df.rows, LAMBDA r : r.nan = {})]

existing_cols(df) == SelectSeq(weather_cols, LAMBDA c : HasCol(df.cols, c))

\* engineer_features reading every weather column without looking whether
\* it exists
engineer_features_AllRequired(df) ==
    IF ~HasCol(df.cols, "date") \/ \E i \in 1..Len(weather_cols) : ~HasCol(df.cols, weather_cols[i])
    THEN [status |-> "KeyError", cols |-> <<>>, rows |-> <<>>]
    ELSE LET d1 == create_temporal_features(df)
             d2 == create_lag_features(d1, existing_cols(d1), lags)
             d3 == create_rolling_features(d2, existing_cols(d1))
             d4 == create_weather_indices(d3)
             d5 == dropna(d4)
         IN  [status |-> "ok", cols |-> d5.cols, rows |-> d5.rows]

\* engineer_features: temporal -> lag -> rolling -> indices -> dropna.
\* df['date'] raises KeyError when the frame has no date column.
engineer_features(df) ==
    IF ~HasCol(df.cols, "date")
    THEN [status |-> "KeyError", cols |-> <<>>, rows |-> <<>>]
    ELSE LET d1 == create_temporal_features(df)
             d2 == create_lag_features(d1, existing_cols(d1), lags)
             d3 == create_rolling_features(d2, existing_cols(d1))
             d4 == create_weather_indices(d3)
             d5 == dropna(d4)
         IN  [status |-> "ok", cols |-> d5.cols, rows |-> d5.rows]


\* ------------------------------------------------------------------------
\* Input frames
\* ------------------------------------------------------------------------
FirstDate == 100

SeedDate == 200

\* datetime.now()
Now == 300

\* a frame of n rows with ascending unique dates; at most one defect:
\* row nanAt has an undefined cell in column nanCol, row negAt has a
\* negative wind speed (0 = no such row)
MkFrame(colnames, n, nanAt, nanCol, negAt) ==
    [cols |-> MapSeq(colnames, Raw),
     rows |-> [i \in 1..n |->
                 [date |-> FirstDate + i - 1,
                  src  |-> i,
                  nan  |-> IF i = nanAt THEN {Raw(nanCol)} ELSE {},
                  neg  |-> (i = negAt)]]]

\* generate_synthetic_training_data(n_days): all ten columns, every cell
\* defined, wind speed an absolute value, daily ascending dates
generate_synthetic_training_data(n_days) == MkFrame(synthetic_cols, n_days, 0, "date", 0)

ColumnChoices ==
    { synthetic_cols,
      <<"date", "temp_max", "temp_min", "humidity", "pressure", "precipitation", "cloud_cover">>,
      <<"date", "cloud_cover", "latitude", "longitude">>,
      <<"temp_max", "temp_min", "humidity", "pressure", "wind_speed", "precipitation">> }

FrameInputs ==
    {MkFrame(cs, n, 0, "date", 0) : <<cs, n>> \in ColumnChoices \X (0..MaxRows)}
    \cup {MkFrame(synthetic_cols, p[1], p[2], p[3], 0) :
            p \in {q \in (1..MaxRows) \X (1..MaxRows) \X {"temp_max", "cloud_cover"} : q[2] <= q[1]}}
    \cup {MkFrame(synthetic_cols, p[1], 0, "date", p[2]) :
            p \in {q \in (1..MaxRows) \X (1..MaxRows) : q[2] <= q[1]}}

AllWeatherPresent(df) == \A i \in 1..Len(weather_cols) : HasCol(df.cols, weather_cols[i])

FullyDefined(df) == \A i \in 1..Len(df.rows) : df.rows[i].nan = {}

NonNegativeWind(df) == \A i \in 1..Len(df.rows) : ~df.rows[i].neg

AscendingDates(rows) == \A i \in 1..Len(rows) : \A j \in 1..Len(rows) : i < j => rows[i].date < rows[j].date

\* ------------------------------------------------------------------------
\* State
\* ------------------------------------------------------------------------
VARIABLES
    fe_in,            \* the frame last passed to engineer_features
    fe_out,           \* what engineer_features returned for it
    fe_prep,          \* what prepare_features returned for it, per target
    models,           \* WeatherMLModel.models: target -> ensemble (NoEnsemble = key absent)
    feature_columns,  \* WeatherMLModel.feature_columns
    model_metrics,    \* WeatherMLModel.model_metrics: run whose metrics are held (0 = {})
    run_id,           \* WeatherMLModel.run_id (0 = attribute not set)
    artifacts,        \* the .pkl bundles written by joblib.dump
    partial_files,    \* runs whose .pkl file is open and only partly written
    mlflow_runs,      \* number of MLflow runs started so far
    pc,               \* the call in progress on the model object
    df,               \* train(): the input frame
    t_idx,            \* train(): index of the next target in the loop
    all_metrics,      \* train(): targets with metrics in this run
    last_split,       \* train(): result of the latest train_test_split
    t_result,         \* outcome of the latest train() call
    features,         \* predict(): the keys of the seed record
    forecast_days,    \* predict(): the horizon
    current_data,     \* predict(): the accumulated history
    forecasts,        \* predict(): the entries produced so far
    day,              \* predict(): loop counter
    last_X,           \* predict(): the frame the ensembles were last called with
    p_result,         \* outcome of the latest predict() call
    prev_call,        \* the predict() call before the latest, when it had the same arguments
    proc,             \* the serving process: position in lifespan()
    current_model,    \* ModelRegistry.current_model
    model_version,    \* ModelRegistry.model_version
    loaded_at,        \* ModelRegistry.loaded_at (0 = None)
    app_state_model_registry,  \* app.state.model_registry is set
    response,         \* the latest HTTP response
    gate_runs,        \* validate_model.py: invocations of main() so far
    args,             \* main(): the parsed command line of the latest invocation
    train_outcome,    \* what the import and model.train() did in the latest invocation
    log,              \* the lines the latest invocation logged
    stdout,           \* the summary the latest invocation printed
    success,          \* main(): the value validate_model returned
    exit_code,        \* the status main() exited with (-1 = not run yet)
    validation_report,\* the file validation_report.json
    prev_run,         \* outcome and observable behaviour of the invocation before the latest
    stub_outputs,     \* what the three sub-models return for the row predicted
    ensemble,         \* train(): the VotingRegressor built for a target
    y_pred            \* ensemble.predict for that row (-1 = not called)

feVars == <<fe_in, fe_out, fe_prep>>

modelVars == <<models, feature_columns, model_metrics, run_id, artifacts, partial_files, mlflow_runs>>

trainVars == <<df, t_idx, all_metrics, last_split, t_result>>

predictVars == <<features, forecast_days, current_data, forecasts, day, last_X, p_result, prev_call>>

registryVars == <<current_model, model_version, loaded_at>>

serveVars == <<proc, registryVars, app_state_model_registry, response>>

coreVars == <<modelVars, pc, trainVars, predictVars>>

gateVars == <<gate_runs, args, train_outcome, log, stdout, success, exit_code,
              validation_report, prev_run>>

ensVars == <<stub_outputs, ensemble, y_pred>>

offlineVars == <<gateVars, ensVars>>

vars == <<feVars, coreVars, serveVars, offlineVars>>

NoFrame == [status |-> "none", cols |-> <<>>, rows |-> <<>>]


\* ------------------------------------------------------------------------
\* WeatherMLModel
\* ------------------------------------------------------------------------
Targets == Range(target_columns)

TargetIndex(t) == CHOOSE i \in 1..Len(target_columns) : target_columns[i] = t

NoEnsemble == [run |-> 0, target |-> "none"]

EmptyFrame == [cols |-> <<>>, rows |-> <<>>]

NoSplit == [target |-> "none", rows |-> <<>>, train |-> <<>>, test |-> <<>>]

\* not self.models
NoModels(m) == \A t \in Targets : m[t] = NoEnsemble

NoPrep == [t \in Targets |-> [status |-> "none", feature_cols |-> <<>>, rows |-> <<>>]]

\* prepare_features excluding only the date and the target being fitted
prepare_features_KeepOtherTargets(frame, target) ==
    LET eng == engineer_features(frame)
        exclude == {DateCol, Raw(target)}
    IN  IF eng.status # "ok" \/ Raw(target) \notin Range(eng.cols)
        THEN [status |-> "KeyError", feature_cols |-> <<>>, rows |-> <<>>]
        ELSE [status |-> "ok",
              feature_cols |-> SelectSeq(eng.cols, LAMBDA c : c \notin exclude),
              rows |-> eng.rows]

\* prepare_features: engineered frame minus date and the 5 targets; the
\* target vector is read (KeyError if the column is missing) before
\* self.feature_columns is assigned.  Every column of this model is numeric.
prepare_features(frame, target) ==
    LET eng == engineer_features(frame)
        exclude == {DateCol} \cup {Raw(t) : t \in Targets}
    IN  IF eng.status # "ok" \/ Raw(target) \notin Range(eng.cols)
        THEN [status |-> "KeyError", feature_cols |-> <<>>, rows |-> <<>>]
        ELSE [status |-> "ok",
              feature_cols |-> SelectSeq(eng.cols, LAMBDA c : c \notin exclude),
              rows |-> eng.rows]

\* a split that takes the holdout from the front of the frame
train_test_split_Front(rows) ==
    LET n == Len(rows)
        n_test == (n + 4) \div 5
        n_train == n - n_test
    IN  IF n_train = 0
        THEN [status |-> "ValueError", train |-> <<>>, test |-> <<>>]
        ELSE [status |-> "ok",
              train |-> SubSeq(rows, n_test + 1, n),
              test |-> SubSeq(rows, 1, n_test)]

\* train_test_split(X, y, test_size=0.2, shuffle=False):
\* n_test = ceil(0.2 n), n_train = n - n_test, ValueError when the training
\* part would be empty; the first n_train rows train, the rest are held out
train_test_split(rows) ==
    LET n == Len(rows)
        n_test == (n + 4) \div 5
        n_train == n - n_test
    IN  IF n_train = 0
        THEN [status |-> "ValueError", train |-> <<>>, test |-> <<>>]
        ELSE [status |-> "ok",
              train |-> SubSeq(rows, 1, n_train),
              test |-> SubSeq(rows, n_train + 1, n)]

TrainInputs ==
    {generate_synthetic_training_data(n) : n \in {0} \cup (13..MaxRows)}
    \cup {MkFrame(<<"date", "temp_max", "temp_min", "humidity", "pressure", "precipitation", "cloud_cover">>, MaxRows, 0, "date", 0),
          MkFrame(<<"temp_max", "temp_min", "humidity", "pressure", "wind_speed", "precipitation">>, MaxRows, 0, "date", 0)}

NoCall == [done |-> FALSE]

CoreInit ==
    /\ models = [t \in Targets |-> NoEnsemble]
    /\ feature_columns = <<>>
    /\ model_metrics = 0
    /\ run_id = 0
    /\ artifacts = {}
    /\ partial_files = {}
    /\ mlflow_runs = 0
    /\ pc = "idle"
    /\ df = EmptyFrame
    /\ t_idx = 0
    /\ all_metrics = {}
    /\ last_split = NoSplit
    /\ t_result = "none"
    /\ features = <<>>
    /\ forecast_days = 0
    /\ current_data = EmptyFrame
    /\ forecasts = <<>>
    /\ day = 0
    /\ last_X = EmptyFrame
    /\ p_result = "none"
    /\ prev_call = NoCall

\* the locals and the result of a finished call are gone when the next call
\* on the object begins
PredictLocalsCleared ==
    /\ features' = <<>>
    /\ forecast_days' = 0
    /\ current_data' = EmptyFrame
    /\ forecasts' = <<>>
    /\ day' = 0
    /\ last_X' = EmptyFrame
    /\ p_result' = "none"
    /\ prev_call' = NoCall

TrainLocalsCleared ==
    /\ df' = EmptyFrame
    /\ t_idx' = 0
    /\ all_metrics' = {}
    /\ last_split' = NoSplit
    /\ t_result' = "none"

\* train(), up to the loop: start the MLflow run and log the parameters;
\* df['date'] raises KeyError when the frame has no date column
TrainStart ==
    \E input \in TrainInputs :
        /\ pc = "idle"
        /\ mlflow_runs < MaxRuns
        /\ mlflow_runs' = mlflow_runs + 1
        /\ df' = input
        /\ all_metrics' = {}
        /\ last_split' = NoSplit
        /\ IF HasCol(input.cols, "date")
           THEN /\ pc' = "train"
                /\ t_idx' = 1
                /\ t_result' = "running"
           ELSE /\ pc' = "idle"
                /\ t_idx' = 0
                /\ t_result' = "KeyError"
        /\ PredictLocalsCleared
        /\ UNCHANGED <<feVars, offlineVars, serveVars, models, feature_columns, model_metrics, run_id, artifacts,
                   partial_files>>

\* train(), one iteration of the loop over target_columns.  fault: an
\* external call of the iteration (ensemble.fit, mlflow.log_metrics) raised.
TrainTarget ==
    /\ pc = "train"
    /\ LET target == target_columns[t_idx]
           pf == prepare_features(df, target)
           sp == train_test_split(pf.rows)
       IN  IF pf.status # "ok"
           THEN /\ pc' = "idle"
                /\ t_result' = "KeyError"
                /\ UNCHANGED <<models, feature_columns, all_metrics, last_split, t_idx>>
           ELSE /\ feature_columns' = pf.feature_cols
                /\ IF sp.status # "ok"
                   THEN /\ pc' = "idle"
                        /\ t_result' = "ValueError"
                        /\ UNCHANGED <<models, all_metrics, last_split, t_idx>>
                   ELSE /\ last_split' = [target |-> target, rows |-> pf.rows,
                                          train |-> sp.train, test |-> sp.test]
                        /\ \E fault \in BOOLEAN :
                             IF fault
                             THEN /\ pc' = "idle"
                                  /\ t_result' = "ExternalError"
                                  /\ UNCHANGED <<models, all_metrics, t_idx>>
                             ELSE /\ models' = [models EXCEPT ![target] =
                                                  [run |-> mlflow_runs, target |-> target]]
                                  /\ all_metrics' = all_metrics \cup {target}
                                  /\ t_idx' = t_idx + 1
                                  /\ pc' = IF t_idx = Len(target_columns) THEN "persist" ELSE "train"
                                  /\ UNCHANGED t_result
    /\ UNCHANGED <<feVars, offlineVars, serveVars, model_metrics, run_id, artifacts, partial_files, mlflow_runs,
                   df, predictVars>>

\* the dict handed to joblib.dump without the feature-column list
ArtifactBundle_NoFeatureColumns ==
    [models |-> models,
     feature_columns |-> <<>>,
     feature_engineer |-> "WeatherFeatureEngineer",
     metrics |-> all_metrics,
     run_id |-> mlflow_runs,
     trained_at |-> Now]

\* the dict handed to joblib.dump: the six keys of the bundle
ArtifactBundle ==
    [models |-> models,
     feature_columns |-> feature_columns,
     feature_engineer |-> "WeatherFeatureEngineer",
     metrics |-> all_metrics,
     run_id |-> mlflow_runs,
     trained_at |-> Now]

\* train(), after the loop: the average metrics are logged and joblib.dump
\* opens /tmp/weather_model_<run id>.pkl for writing and starts to pickle
\* the bundle into it
TrainDump ==
    /\ pc = "persist"
    /\ partial_files' = partial_files \cup {mlflow_runs}
    /\ pc' = "dumping"
    /\ UNCHANGED <<feVars, offlineVars, serveVars, models, feature_columns, model_metrics, run_id, artifacts,
                   mlflow_runs, trainVars, predictVars>>

\* train(), the rest: joblib.dump completes the file, mlflow.log_artifact,
\* then model_metrics and run_id.  fault: mlflow.log_artifact raised.
TrainPersist ==
    \E fault \in BOOLEAN :
        /\ pc = "dumping"
        /\ partial_files' = partial_files \ {mlflow_runs}
        /\ artifacts' = artifacts \cup {ArtifactBundle}
        /\ pc' = "idle"
        /\ IF fault
           THEN /\ t_result' = "ExternalError"
                /\ UNCHANGED <<model_metrics, run_id>>
           ELSE /\ t_result' = "ok"
                /\ model_metrics' = mlflow_runs
                /\ run_id' = mlflow_runs
        /\ UNCHANGED <<feVars, offlineVars, serveVars, models, feature_columns, mlflow_runs, df, t_idx,
                       all_metrics, last_split, predictVars>>

\* ------------------------------------------------------------------------
\* WeatherMLModel.predict
\* Values are in thousandths; a history row carries val, the value of each
\* raw column (0 where the row has no such cell).
\* ------------------------------------------------------------------------
ValueNames == Range(synthetic_cols) \ {"date"}

SeedChoices ==
    { <<"date", "temp_max", "temp_min", "humidity", "pressure", "wind_speed", "cloud_cover", "precipitation">>,
      <<"date", "cloud_cover", "latitude", "longitude">>,
      <<"date">>,
      <<"temp_max", "temp_min">> }

IndexIn(seq, x) == CHOOSE i \in 1..Len(seq) : seq[i] = x

\* pd.DataFrame([features]) followed by the assignment of the date column
SeedFrame(keys) ==
    [cols |-> MapSeq(keys, Raw) \o (IF "date" \in Range(keys) THEN <<>> ELSE <<DateCol>>),
     rows |-> << [date |-> IF "date" \in Range(keys) THEN SeedDate ELSE Now,
                  src  |-> 1,
                  nan  |-> {},
                  neg  |-> FALSE,
                  val  |-> [c \in ValueNames |->
                              IF c \in Range(keys) THEN 1000 * IndexIn(synthetic_cols, c) ELSE 0]] >>]

\* forecast_date.strftime('%Y-%m-%d')
strftime(d) == <<"%Y-%m-%d", d>>

\* round(float(pred), 2) on thousandths (a raw prediction is never a tie)
Round2(v) == IF v % 10 < 5 THEN v - (v % 10) ELSE v - (v % 10) + 10

\* an ensemble whose output depends on whether it was called before
EnsembleOutput_Carry(ens, xrow) ==
    1000 * ens.run + 100 * TargetIndex(ens.target) + 10 * (xrow.date % 7)
        + (IF xrow.zero = {} THEN 3 ELSE 7) + (IF prev_call.done THEN 1000 ELSE 0)

\* the raw output of a fitted ensemble for one input row: a fixed function
\* of the ensemble and of the row
EnsembleOutput(ens, xrow) ==
    1000 * ens.run + 100 * TargetIndex(ens.target) + 10 * (xrow.date % 7)
        + (IF xrow.zero = {} THEN 3 ELSE 7)

\* the frame handed to one ensemble: the columns of feature_columns, the
\* available ones copied from X_pred, the others filled with 0
PadFeatures(X_pred, available) ==
    [cols |-> feature_columns,
     rows |-> [i \in 1..Len(X_pred) |->
                 [date |-> X_pred[i].date,
                  src  |-> X_pred[i].src,
                  nan  |-> X_pred[i].nan \cap Range(available),
                  zero |-> Range(feature_columns) \ Range(available)]]]

PredictStart ==
    \E keys \in SeedChoices, N \in 0..MaxHorizon :
        /\ pc = "idle"
        /\ features' = keys
        /\ forecast_days' = N
        /\ forecasts' = <<>>
        /\ day' = 0
        /\ last_X' = EmptyFrame
        /\ IF NoModels(models)
           THEN /\ p_result' = "ModelNotTrained"
                /\ pc' = "idle"
                /\ current_data' = EmptyFrame
           ELSE /\ p_result' = "running"
                /\ pc' = "predict"
                /\ current_data' = SeedFrame(keys)
        /\ prev_call' = IF p_result = "none" \/ features # keys \/ forecast_days # N
                        THEN NoCall
                        ELSE [done |-> TRUE,
                              features |-> features,
                              forecast_days |-> forecast_days,
                              models |-> models,
                              feature_columns |-> feature_columns,
                              p_result |-> p_result,
                              forecasts |-> forecasts]
        /\ TrainLocalsCleared
        /\ UNCHANGED <<feVars, offlineVars, serveVars, modelVars>>

\* one iteration of the loop `for day in range(forecast_days)`
PredictStep ==
    /\ pc = "predict"
    /\ day < forecast_days
    /\ LET last == current_data.rows[Len(current_data.rows)]
           forecast_date == last.date + 1
           current_data_copy ==
               [current_data EXCEPT !.rows =
                   [i \in 1..Len(current_data.rows) |->
                       [current_data.rows[i] EXCEPT !.date = forecast_date]]]
           df_features == engineer_features(current_data_copy)
           available_features ==
               SelectSeq(feature_columns, LAMBDA f : f \in Range(df_features.cols))
           X_pred == IF Len(df_features.rows) = 0 THEN <<>>
                     ELSE << df_features.rows[Len(df_features.rows)] >>
           X_padded == PadFeatures(X_pred, available_features)
           called == {t \in Targets : models[t] # NoEnsemble}
           day_forecast ==
               [date |-> strftime(forecast_date),
                targets |-> called,
                val |-> [t \in Targets |->
                           IF t \in called
                           THEN Round2(EnsembleOutput(models[t], X_padded.rows[1]))
                           ELSE 0]]
           added == SelectSeq(target_columns,
                        LAMBDA t : t \in called /\ Raw(t) \notin Range(current_data.cols))
           new_row ==
               [last EXCEPT !.date = forecast_date,
                            !.src = Len(current_data.rows) + 1,
                            !.nan = @ \ {Raw(t) : t \in called},
                            !.val = [c \in ValueNames |->
                                        IF c \in called THEN day_forecast.val[c] ELSE @[c]]]
       IN  IF called # {} /\ Len(X_padded.rows) = 0
           THEN \* the ensemble is called with a frame of 0 rows and raises
                /\ last_X' = X_padded
                /\ p_result' = "EmptyInputError"
                /\ pc' = "idle"
                /\ UNCHANGED <<current_data, forecasts, day>>
           ELSE /\ last_X' = IF called = {} THEN last_X ELSE X_padded
                /\ forecasts' = Append(forecasts, day_forecast)
                /\ current_data' =
                       [cols |-> current_data.cols \o MapSeq(added, Raw),
                        rows |-> Append(
                            [i \in 1..Len(current_data.rows) |->
                                [current_data.rows[i] EXCEPT
                                    !.nan = @ \cup {Raw(t) : t \in Range(added)}]],
                            new_row)]
                /\ day' = day + 1
                /\ UNCHANGED <<p_result, pc>>
    /\ UNCHANGED <<feVars, offlineVars, serveVars, modelVars, trainVars, features, forecast_days,
                   prev_call>>

\* `return forecasts`
PredictReturn ==
    /\ pc = "predict"
    /\ day >= forecast_days
    /\ p_result' = "ok"
    /\ pc' = "idle"
    /\ UNCHANGED <<feVars, offlineVars, serveVars, modelVars, trainVars, features, forecast_days,
                   current_data, forecasts, day, last_X, prev_call>>

\* ------------------------------------------------------------------------
\* scripts/validate_model.py: the validation gate of the CI pipeline.
\* R2 and RMSE are in hundredths.  The import of model.train and the call
\* model.train() are the environment: they raise ImportError, raise another
\* exception, or return results with some avg_r2 and avg_rmse.
\* ------------------------------------------------------------------------
MaxGateRuns == 2

Line(level, msg, value, threshold) ==
    [level |-> level, msg |-> msg, value |-> value, threshold |-> threshold]

NoReport == [exists |-> FALSE]

NoSummary == [printed |-> FALSE]

NoRun == [ran |-> FALSE]

TrainOutcomes ==
    {[kind |-> "ImportError", avg_r2 |-> 0, avg_rmse |-> 0],
     [kind |-> "Exception", avg_r2 |-> 0, avg_rmse |-> 0]}
    \cup [kind : {"results"}, avg_r2 : {80, 85, 90}, avg_rmse : {200, 300, 310}]

\* --min-r2 (default 0.85), --max-rmse (default 3.0), --summary
GateArgs == [min_r2 : {85, 90}, max_rmse : {200, 300}, summary : BOOLEAN]

NoArgs == [min_r2 |-> 0, max_rmse |-> 0, summary |-> FALSE]

NoTrainOutcome == [kind |-> "none", avg_r2 |-> 0, avg_rmse |-> 0]

GateInit ==
    /\ gate_runs = 0
    /\ args = NoArgs
    /\ train_outcome = NoTrainOutcome
    /\ log = <<>>
    /\ stdout = NoSummary
    /\ success = FALSE
    /\ exit_code = -1
    /\ validation_report = NoReport
    /\ prev_run = NoRun


\* passed, with a strict comparison of R2
passed_StrictR2(avg_r2, min_r2, avg_rmse, max_rmse) ==
    avg_r2 > min_r2 /\ avg_rmse <= max_rmse

\* passed = avg_r2 >= min_r2 and avg_rmse <= max_rmse
passed(avg_r2, min_r2, avg_rmse, max_rmse) ==
    avg_r2 >= min_r2 /\ avg_rmse <= max_rmse

\* the except clauses with `except ImportError` left out
except_clauses_OnlyException(kind, head) ==
    [ret |-> FALSE,
     log |-> Append(head, Line("ERROR", "Validation error", 0, 0)),
     report |-> NoReport]

\* the two except clauses of validate_model
except_clauses(kind, head) ==
    IF kind = "ImportError"
    THEN [ret |-> TRUE,
          log |-> Append(head, Line("WARNING", "ML dependencies not available - skipping validation", 0, 0)),
          report |-> NoReport]
    ELSE [ret |-> FALSE,
          log |-> Append(head, Line("ERROR", "Validation error", 0, 0)),
          report |-> NoReport]

\* validate_model: the value returned, the lines logged and the report
\* written to validation_report.json (NoReport: the file is not touched)
validate_model(min_r2, max_rmse, model_path, tr, now) ==
    LET head == << Line("INFO", "Starting model validation", 0, 0),
                   Line("INFO", "Thresholds", min_r2, max_rmse) >>
    IN  IF tr.kind # "results"
        THEN except_clauses(tr.kind, head)
        ELSE LET avg_r2 == tr.avg_r2
                 avg_rmse == tr.avg_rmse
                 ok == passed(avg_r2, min_r2, avg_rmse, max_rmse)
                 measured == << Line("INFO", "Model R2", avg_r2, min_r2),
                                Line("INFO", "Model RMSE", avg_rmse, max_rmse) >>
                 verdict ==
                     IF ok
                     THEN << Line("INFO", "Model validation PASSED", 0, 0) >>
                     ELSE << Line("ERROR", "Model validation FAILED", 0, 0) >>
                          \o (IF avg_r2 < min_r2
                              THEN << Line("ERROR", "R2 is below threshold", avg_r2, min_r2) >>
                              ELSE << >>)
                          \o (IF avg_rmse > max_rmse
                              THEN << Line("ERROR", "RMSE exceeds threshold", avg_rmse, max_rmse) >>
                              ELSE << >>)
                 report == [exists |-> TRUE,
                            timestamp |-> now,
                            passed |-> ok,
                            metrics |-> [r2 |-> avg_r2, rmse |-> avg_rmse],
                            thresholds |-> [min_r2 |-> min_r2, max_rmse |-> max_rmse],
                            model_path |-> model_path]
             IN  [ret |-> ok,
                  log |-> head \o measured \o verdict
                          \o << Line("INFO", "Report saved", 0, 0) >>,
                  report |-> report]

\* print_report_summary: what is printed from the file found at report_path
print_report_summary(file) ==
    IF file.exists
    THEN [stdout |-> [printed |-> TRUE,
                      timestamp |-> file.timestamp,
                      result |-> IF file.passed THEN "PASSED" ELSE "FAILED",
                      r2 |-> file.metrics.r2,
                      min_r2 |-> file.thresholds.min_r2,
                      rmse |-> file.metrics.rmse,
                      max_rmse |-> file.thresholds.max_rmse],
          log |-> << >>]
    ELSE [stdout |-> NoSummary,
          log |-> << Line("WARNING", "Report not found", 0, 0) >>]

\* which of the gate's outcomes an invocation was
Outcome(tr, a) ==
    CASE tr.kind = "ImportError" -> "dependency-unavailable"
      [] tr.kind = "Exception" -> "unexpected-failure"
      [] tr.kind = "results" ->
            IF tr.avg_r2 >= a.min_r2 /\ tr.avg_rmse <= a.max_rmse
            THEN "passed"
            ELSE "threshold-not-met"
      [] OTHER -> "none"

\* what the invoking pipeline sees of an invocation: the exit status and
\* the level and text of each logged line
Observation(code, lines) ==
    [exit_code |-> code,
     messages |-> [i \in 1..Len(lines) |-> [level |-> lines[i].level, msg |-> lines[i].msg]]]

\* python validate_model.py [--min-r2 x] [--max-rmse y] [--summary]
main ==
    \E a \in GateArgs, tr \in TrainOutcomes :
        /\ gate_runs < MaxGateRuns
        /\ LET r == validate_model(a.min_r2, a.max_rmse, "./model", tr, Now + gate_runs)
               file == IF r.report.exists THEN r.report ELSE validation_report
               s == IF a.summary
                    THEN print_report_summary(file)
                    ELSE [stdout |-> NoSummary, log |-> << >>]
           IN  /\ gate_runs' = gate_runs + 1
               /\ args' = a
               /\ train_outcome' = tr
               /\ log' = r.log \o s.log
               /\ stdout' = s.stdout
               /\ success' = r.ret
               /\ exit_code' = IF r.ret THEN 0 ELSE 1
               /\ validation_report' = file
               /\ prev_run' = IF gate_runs = 0
                              THEN NoRun
                              ELSE [ran |-> TRUE,
                                    outcome |-> Outcome(train_outcome, args),
                                    obs |-> Observation(exit_code, log)]
        /\ UNCHANGED <<feVars, coreVars, serveVars, ensVars>>

\* ------------------------------------------------------------------------
\* The per-target ensemble of train(): a VotingRegressor over three
\* sub-models.  Weights and outputs are in tenths, in exact arithmetic.
\* ------------------------------------------------------------------------
NoVotingRegressor == [estimators |-> <<>>, weights |-> <<>>]

StubOutputs == {0, 10, 20, 30, 35}

EnsembleIdle ==
    /\ stub_outputs = <<0, 0, 0>>
    /\ ensemble = NoVotingRegressor
    /\ y_pred = -1

OfflineInit ==
    /\ GateInit
    /\ EnsembleIdle

RECURSIVE Sum(_)
Sum(s) == IF s = <<>> THEN 0 ELSE Head(s) + Sum(Tail(s))

\* a VotingRegressor with equal weights
VotingRegressor_EqualWeights ==
    [estimators |-> <<"xgb", "lgb", "rf">>,
     weights |-> <<3, 3, 3>>]

\* VotingRegressor(estimators=[xgb, lgb, rf], weights=[0.4, 0.4, 0.2])
VotingRegressor ==
    [estimators |-> <<"xgb", "lgb", "rf">>,
     weights |-> <<4, 4, 2>>]

\* VotingRegressor.predict: the average of the sub-model outputs weighted
\* by weights
ensemble_predict(ens, outs) ==
    Sum([i \in 1..Len(ens.estimators) |-> ens.weights[i] * outs[i]]) \div Sum(ens.weights)

\* train(): the ensemble is built
BuildEnsemble ==
    /\ ensemble = NoVotingRegressor
    /\ ensemble' = VotingRegressor
    /\ UNCHANGED <<feVars, coreVars, serveVars, gateVars, stub_outputs, y_pred>>

\* ensemble.predict on one row
EnsemblePredict ==
    /\ ensemble # NoVotingRegressor
    /\ y_pred = -1
    /\ y_pred' = ensemble_predict(ensemble, stub_outputs)
    /\ UNCHANGED <<feVars, coreVars, serveVars, gateVars, stub_outputs, ensemble>>

\* ------------------------------------------------------------------------
\* Serving: ModelRegistry, lifespan, the forecast and model routers
\* Temperatures, percentages, millimetres and speeds are in tenths,
\* confidence scores in thousandths, coordinates in degrees.
\* ------------------------------------------------------------------------
NoResponse == [endpoint |-> "none", status |-> 0]

ServeInit ==
    /\ proc = "starting"
    /\ current_model = "None"
    /\ model_version = "None"
    /\ loaded_at = 0
    /\ app_state_model_registry = FALSE
    /\ response = NoResponse

\* ModelRegistry.__init__
NewRegistry == [current_model |-> "None", model_version |-> "None", loaded_at |-> 0]

\* load_latest_model with no exception handler around its body
load_latest_model_NoHandler(reg, fault) ==
    IF fault
    THEN [reg |-> reg, raised |-> TRUE]
    ELSE [reg |-> [reg EXCEPT !.model_version = "1.0.0-ensemble", !.loaded_at = Now],
          raised |-> FALSE]

\* ModelRegistry.load_latest_model.  fault: a statement of the try body
\* raised before the assignments; `except Exception` logs and returns.
load_latest_model(reg, fault) ==
    IF fault
    THEN [reg |-> reg, raised |-> FALSE]
    ELSE [reg |-> [reg EXCEPT !.model_version = "1.0.0-ensemble", !.loaded_at = Now],
          raised |-> FALSE]

\* ModelRegistry.is_loaded: the property returns True
is_loaded == TRUE

\* ModelRegistry.predict on the registry of the serving process: raises
\* ValueError('No model loaded') when current_model is None
ModelRegistry_predict ==
    IF current_model = "None" THEN "No model loaded" ELSE "forecast"

\* lifespan(), up to the yield
Startup ==
    \E fault \in BOOLEAN :
        /\ proc = "starting"
        /\ LET r == load_latest_model(NewRegistry, fault)
           IN  IF r.raised
               THEN /\ proc' = "crashed"
                    /\ UNCHANGED <<registryVars, app_state_model_registry>>
               ELSE /\ proc' = "serving"
                    /\ current_model' = r.reg.current_model
                    /\ model_version' = r.reg.model_version
                    /\ loaded_at' = r.reg.loaded_at
                    /\ app_state_model_registry' = TRUE
        /\ UNCHANGED <<feVars, offlineVars, coreVars, response>>

\* ForecastRequest: latitude in [-90, 90], longitude in [-180, 180], both
\* required, days in [1, 14]
Missing == 1000

\* ForecastRequest with the upper bound of days off by one
RequestValid_Days15(req) ==
    /\ req.latitude # Missing /\ req.latitude >= -90 /\ req.latitude <= 90
    /\ req.longitude # Missing /\ req.longitude >= -180 /\ req.longitude <= 180
    /\ req.days >= 1 /\ req.days <= 15

RequestValid(req) ==
    /\ req.latitude # Missing /\ req.latitude >= -90 /\ req.latitude <= 90
    /\ req.longitude # Missing /\ req.longitude >= -180 /\ req.longitude <= 180
    /\ req.days >= 1 /\ req.days <= 14

ForecastRequests ==
    [latitude : {Missing, -91, 40, 90}, longitude : {Missing, -74, 181},
     days : {0, 1, 14, 15}, units : {"metric", "imperial"}]

\* the random draws of one mock_forecast call and the season of the day it
\* runs on (tenths; gauss draws taken three deviations from the mean)
Draws ==
    { [season |-> IF lv = "low" THEN -1 ELSE 1,
       temp_variation |-> IF lv = "low" THEN -90 ELSE 90,
       up |-> IF lv = "low" THEN 30 ELSE 80,
       down |-> IF lv = "low" THEN 80 ELSE 30,
       humidity |-> IF lv = "low" THEN 400 ELSE 850,
       cloud_cover |-> IF lv = "low" THEN 100 ELSE 900,
       uv_index |-> IF lv = "low" THEN 10 ELSE 100,
       confidence |-> IF lv = "low" THEN 750 ELSE 970,
       precipitation |-> pr,
       wind_speed |-> ws] : lv \in {"low", "high"}, pr \in {-120, 180}, ws \in {-100, 500} }

Abs(x) == IF x < 0 THEN -x ELSE x

Max(a, b) == IF a >= b THEN a ELSE b

Min(a, b) == IF a <= b THEN a ELSE b

\* tenths of degrees Celsius to tenths of degrees Fahrenheit, rounded to one
\* decimal: t * 9/5 + 32
ToImperial(t) ==
    LET h == 18 * t + 3200          \* hundredths
        r == h % 10
    IN  IF r < 5 THEN (h - r) \div 10 ELSE (h - r) \div 10 + 1

\* the field constraints of DailyForecast
DailyForecastValid(e) ==
    /\ e.humidity >= 0 /\ e.humidity <= 1000
    /\ e.precipitation_mm >= 0
    /\ e.precipitation_probability >= 0 /\ e.precipitation_probability <= 1000
    /\ e.wind_speed_kmh >= 0
    /\ e.uv_index >= 0 /\ e.uv_index <= 110
    /\ e.cloud_cover >= 0 /\ e.cloud_cover <= 1000
    /\ e.confidence_score >= 0 /\ e.confidence_score <= 1000

\* mock_forecast with the sign of the lower temperature offset flipped
mock_forecast_SignSlip(lat, lon, days, units, rnd) ==
    LET base_temp == 200 + 150 * rnd.season - 3 * Abs(lat)
        tmax == base_temp + rnd.temp_variation + rnd.up
        tmin == base_temp + rnd.temp_variation + rnd.down
        precipitation == Max(0, rnd.precipitation)
        wind_speed == Max(0, rnd.wind_speed)
    IN  [i \in 1..days |->
            [date |-> strftime(Now + i),
             temperature_max |-> IF units = "imperial" THEN ToImperial(tmax) ELSE tmax,
             temperature_min |-> IF units = "imperial" THEN ToImperial(tmin) ELSE tmin,
             humidity |-> rnd.humidity,
             precipitation_mm |-> precipitation,
             precipitation_probability |-> Min(1000, precipitation * 15),
             wind_speed_kmh |-> wind_speed,
             uv_index |-> rnd.uv_index,
             cloud_cover |-> rnd.cloud_cover,
             confidence_score |-> rnd.confidence]]

\* mock_forecast: `days` entries dated from tomorrow on
mock_forecast(lat, lon, days, units, rnd) ==
    LET base_temp == 200 + 150 * rnd.season - 3 * Abs(lat)
        tmax == base_temp + rnd.temp_variation + rnd.up
        tmin == base_temp + rnd.temp_variation - rnd.down
        precipitation == Max(0, rnd.precipitation)
        wind_speed == Max(0, rnd.wind_speed)
    IN  [i \in 1..days |->
            [date |-> strftime(Now + i),
             temperature_max |-> IF units = "imperial" THEN ToImperial(tmax) ELSE tmax,
             temperature_min |-> IF units = "imperial" THEN ToImperial(tmin) ELSE tmin,
             humidity |-> rnd.humidity,
             precipitation_mm |-> precipitation,
             precipitation_probability |-> Min(1000, precipitation * 15),
             wind_speed_kmh |-> wind_speed,
             uv_index |-> rnd.uv_index,
             cloud_cover |-> rnd.cloud_cover,
             confidence_score |-> rnd.confidence]]

\* POST /api/v1/forecast/: 422 from request validation, else the mock
\* forecast; any exception becomes a 500
get_forecast ==
    \E req \in ForecastRequests, rnd \in Draws :
        /\ proc = "serving"
        /\ LET forecasts_ == mock_forecast(req.latitude, req.longitude, req.days, req.units, rnd)
           IN  response' =
                 IF ~RequestValid(req)
                 THEN [endpoint |-> "forecast", request |-> req, status |-> 422, forecast |-> <<>>]
                 ELSE IF \E i \in 1..Len(forecasts_) : ~DailyForecastValid(forecasts_[i])
                 THEN [endpoint |-> "forecast", request |-> req, status |-> 500, forecast |-> <<>>]
                 ELSE [endpoint |-> "forecast", request |-> req, status |-> 200,
                       forecast |-> forecasts_]
        /\ UNCHANGED <<feVars, offlineVars, coreVars, proc, registryVars, app_state_model_registry>>

\* city_coords, in whole degrees
city_coords ==
    [new_york |-> <<41, -74>>, london |-> <<52, 0>>, tokyo |-> <<36, 140>>,
     paris |-> <<49, 2>>, sydney |-> <<-34, 151>>, dubai |-> <<25, 55>>]

\* city.lower().replace(" ", "_") on the names requested
city_lower(city) ==
    CASE city = "New York" -> "new_york"
      [] city = "Sydney" -> "sydney"
      [] OTHER -> city

CityRequests ==
    [city : {"New York", "new_york", "Sydney", "dubai", "atlantis"},
     days : {0, 1, 14, 15}, units : {"metric", "imperial"}]

\* GET /api/v1/forecast/locations/{city}?days=&units=: 404 for a city that
\* is not in city_coords, else the mock forecast; days is not validated
get_forecast_by_city ==
    \E req \in CityRequests, rnd \in Draws :
        /\ proc = "serving"
        /\ response' =
              IF city_lower(req.city) \notin DOMAIN city_coords
              THEN [endpoint |-> "city", request |-> req, status |-> 404, forecast |-> <<>>]
              ELSE LET lat == city_coords[city_lower(req.city)][1]
                       lon == city_coords[city_lower(req.city)][2]
                       forecasts_ == mock_forecast(lat, lon, req.days, req.units, rnd)
                   IN  IF \E i \in 1..Len(forecasts_) : ~DailyForecastValid(forecasts_[i])
                       THEN [endpoint |-> "city", request |-> req, status |-> 500, forecast |-> <<>>]
                       ELSE [endpoint |-> "city", request |-> req, status |-> 200,
                             forecast |-> forecasts_]
        /\ UNCHANGED <<feVars, offlineVars, coreVars, proc, registryVars, app_state_model_registry>>

\* GET /api/v1/models/: the registered models
list_models == << [name |-> "weather-forecast", version |-> "1.0.0", stage |-> "Production"] >>

VersionChoices == {"1.0.0", "2.0.0"}

StageChoices == {"Production", "Staging"}

\* POST /api/v1/models/{version}/promote
promote_model ==
    \E version \in VersionChoices, target_stage \in StageChoices :
        /\ proc = "serving"
        /\ response' = [endpoint |-> "promote", status |-> 200,
                        model |-> "weather-forecast", version |-> version,
                        promoted_to |-> target_stage, promoted_at |-> Now]
        /\ UNCHANGED <<feVars, offlineVars, coreVars, proc, registryVars, app_state_model_registry>>

InitServe ==
    /\ fe_in = MkFrame(synthetic_cols, 0, 0, "date", 0)
    /\ fe_out = NoFrame
    /\ fe_prep = NoPrep
    /\ CoreInit
    /\ ServeInit
    /\ OfflineInit

NextServe ==
    \/ Startup
    \/ get_forecast
    \/ get_forecast_by_city
    \/ promote_model

SpecServe == InitServe /\ [][NextServe]_vars

Init ==
    /\ fe_in = MkFrame(synthetic_cols, 0, 0, "date", 0)
    /\ fe_out = NoFrame
    /\ fe_prep = NoPrep
    /\ CoreInit
    /\ ServeInit
    /\ OfflineInit

Next ==
    \/ TrainStart
    \/ TrainTarget
    \/ TrainDump
    \/ TrainPersist
    \/ PredictStart
    \/ PredictStep
    \/ PredictReturn

Spec == Init /\ [][Next]_vars

\* a step of a predict() call
PredictAction == PredictStart \/ PredictStep \/ PredictReturn

\* ------------------------------------------------------------------------
\* SpecGate: invocations of the validation script in one working directory
\* ------------------------------------------------------------------------
InitGate ==
    /\ fe_in = MkFrame(synthetic_cols, 0, 0, "date", 0)
    /\ fe_out = NoFrame
    /\ fe_prep = NoPrep
    /\ CoreInit
    /\ ServeInit
    /\ OfflineInit

NextGate == main

SpecGate == InitGate /\ [][NextGate]_vars

\* ------------------------------------------------------------------------
\* SpecEnsemble: an ensemble built as in train(), over stub sub-models
\* ------------------------------------------------------------------------
InitEnsemble ==
    /\ fe_in = MkFrame(synthetic_cols, 0, 0, "date", 0)
    /\ fe_out = NoFrame
    /\ fe_prep = NoPrep
    /\ CoreInit
    /\ ServeInit
    /\ GateInit
    /\ stub_outputs \in StubOutputs \X StubOutputs \X StubOutputs
    /\ ensemble = NoVotingRegressor
    /\ y_pred = -1

NextEnsemble ==
    \/ BuildEnsemble
    \/ EnsemblePredict

SpecEnsemble == InitEnsemble /\ [][NextEnsemble]_vars

\* ------------------------------------------------------------------------
\* SpecFE: engineer_features applied to every bounded input frame
\* ------------------------------------------------------------------------
InitFE ==
    /\ fe_in \in FrameInputs
    /\ fe_out = NoFrame
    /\ fe_prep = NoPrep
    /\ CoreInit
    /\ ServeInit
    /\ OfflineInit

EngineerFeatures ==
    /\ fe_out.status = "none"
    /\ fe_out' = engineer_features(fe_in)
    /\ UNCHANGED <<fe_in, fe_prep, coreVars, serveVars, offlineVars>>

\* the calls prepare_features(df, target) of one training loop on fe_in
PrepareFeatures ==
    /\ fe_prep = NoPrep
    /\ fe_prep' = [t \in Targets |-> prepare_features(fe_in, t)]
    /\ UNCHANGED <<fe_in, fe_out, coreVars, serveVars, offlineVars>>

NextFE ==
    \/ EngineerFeatures
    \/ PrepareFeatures

SpecFE == InitFE /\ [][NextFE]_vars


\* ------------------------------------------------------------------------
\* Properties of engineer_features (SpecFE)
\* ------------------------------------------------------------------------

\* C3: for every input of at least 15 rows with ascending unique dates and
\* all raw fields defined, the engineered frame has no undefined cell and at
\* most as many rows as the input.
C3_EngineeredFrameDefined ==
    (/\ fe_out.status = "ok"
     /\ Len(fe_in.rows) >= 15
     /\ AscendingDates(fe_in.rows)
     /\ FullyDefined(fe_in))
    => (/\ FullyDefined(fe_out)
        /\ Len(fe_out.rows) <= Len(fe_in.rows))

C3_Witness ==
    /\ fe_out.status = "ok"
    /\ Len(fe_in.rows) >= 15
    /\ AscendingDates(fe_in.rows)
    /\ FullyDefined(fe_in)
    /\ Len(fe_out.rows) >= 1
    /\ Len(fe_out.rows) < Len(fe_in.rows)

\* C4 (as stated): with all six weather columns present and fully defined,
\* every input of fewer than 15 rows yields an empty frame and every input
\* of 15 or more rows yields at least one row.
C4_MinimumLengthIs15 ==
    (/\ fe_out.status = "ok"
     /\ AllWeatherPresent(fe_in)
     /\ FullyDefined(fe_in))
    => (/\ Len(fe_in.rows) < 15 => Len(fe_out.rows) = 0
        /\ Len(fe_in.rows) >= 15 => Len(fe_out.rows) >= 1)

\* C4 (amended): with all six weather columns present, fully defined and no
\* negative wind speed, the minimum input length for a non-empty engineered
\* frame is 14, the largest rolling window: fewer than 14 rows yield an
\* empty frame, 14 or more rows yield at least one row.
C4_MinimumLengthIs14 ==
    (/\ fe_out.status = "ok"
     /\ AllWeatherPresent(fe_in)
     /\ FullyDefined(fe_in)
     /\ NonNegativeWind(fe_in))
    => (/\ Len(fe_in.rows) < 14 => Len(fe_out.rows) = 0
        /\ Len(fe_in.rows) >= 14 => Len(fe_out.rows) >= 1)

C4_Witness ==
    /\ fe_out.status = "ok"
    /\ AllWeatherPresent(fe_in)
    /\ FullyDefined(fe_in)
    /\ NonNegativeWind(fe_in)
    /\ Len(fe_in.rows) = 14
    /\ Len(fe_out.rows) = 1


\* ------------------------------------------------------------------------
\* Properties of WeatherMLModel (Spec)
\* ------------------------------------------------------------------------
FullyTrained == \A t \in Targets : models[t] # NoEnsemble

PredictCalled == p_result # "none"

PredictEnded == pc = "idle" /\ p_result \notin {"none", "running"}

\* C1: for a model with an ensemble for each of the 5 targets and a seed
\* record carrying a date, predict(seed, N) with N in 1..14 returns exactly
\* N entries, dated the N consecutive days after the seed's date, each with
\* a prediction for all 5 targets.
C1_PredictReturnsNDays ==
    (/\ PredictEnded
     /\ FullyTrained
     /\ "date" \in Range(features)
     /\ forecast_days \in 1..14)
    => (/\ p_result = "ok"
        /\ Len(forecasts) = forecast_days
        /\ \A i \in 1..Len(forecasts) :
              /\ forecasts[i].date = strftime(SeedDate + i)
              /\ forecasts[i].targets = Targets)

\* C2: at every recursive forecast step the ensembles are called with
\* exactly one row whose columns are the frozen feature-column list in
\* training order, with no undefined cell in it (what the history cannot
\* populate is 0): neither the row nor a column is dropped.
C2_FixedShapeInput ==
    (PredictCalled /\ last_X # EmptyFrame)
    => (/\ Len(last_X.rows) = 1
        /\ last_X.cols = feature_columns
        /\ last_X.rows[1].nan = {})

\* C5: for every target trained on an input with ascending unique dates,
\* every holdout row is dated strictly later than every training row, and
\* training rows followed by holdout rows are exactly the engineered rows,
\* none in both.
C5_ChronologicalSplit ==
    (last_split.target # "none" /\ AscendingDates(df.rows))
    => (/\ \A i \in 1..Len(last_split.train) : \A j \in 1..Len(last_split.test) :
              last_split.train[i].date < last_split.test[j].date
        /\ last_split.train \o last_split.test = last_split.rows
        /\ Range(last_split.train) \cap Range(last_split.test) = {})

C5_Witness ==
    /\ last_split.target # "none"
    /\ AscendingDates(df.rows)
    /\ models[last_split.target].run = mlflow_runs
    /\ Len(last_split.train) >= 2
    /\ Len(last_split.test) >= 2

\* C6: predict fails with the model-not-trained error whenever the model
\* lacks an ensemble for any of the 5 targets, and returns no entry then.
C6_PredictRequiresAllTargets ==
    (PredictCalled /\ ~FullyTrained)
    => (p_result = "ModelNotTrained" /\ forecasts = <<>>)

\* C7: train() never fits (nor persists) an ensemble on an empty or
\* single-row training set: it fails before fitting when too few engineered
\* rows remain.
C7_NoDegenerateTrainingSet ==
    /\ (last_split.target # "none" /\ models[last_split.target].run = mlflow_runs)
          => Len(last_split.train) >= 2
    /\ (t_result = "ok" /\ last_split.target # "none")
          => (Len(last_split.train) >= 2 /\ \E a \in artifacts : a.run_id = mlflow_runs)


\* ------------------------------------------------------------------------
\* Properties of the serving layer (SpecServe)
\* ------------------------------------------------------------------------

\* C8: loading the latest model reports a loaded version only when an
\* artifact is actually held; with no entry / no artifact it fails with
\* not-found and reports no version.
C8_LoadReportsOnlyHeldModel ==
    (proc = "serving" /\ model_version # "None") => current_model # "None"

\* C9: a failure to load a model at startup never terminates the serving
\* process: once serving, the registry object is installed on the
\* application state and every valid forecast request is answered with
\* status 200 and one entry per requested day.
C9_StartupSurvivesLoadFailure ==
    /\ proc # "crashed"
    /\ proc = "serving" => app_state_model_registry
    /\ (response.endpoint = "forecast" /\ RequestValid(response.request))
          => (/\ response.status = 200
              /\ Len(response.forecast) = response.request.days)

C9_Witness ==
    /\ proc = "serving"
    /\ model_version = "None"
    /\ app_state_model_registry
    /\ response.endpoint = "forecast"
    /\ RequestValid(response.request)
    /\ response.status = 200
    /\ Len(response.forecast) = 14

\* C10: promote(version, target_stage) applies to an existing registry
\* entry and sets that entry's stage to target_stage: after a promotion
\* reported as successful, the registry lists the promoted version at the
\* stage named in promoted_to.
C10_PromoteUpdatesExistingEntry ==
    (response.endpoint = "promote" /\ response.status = 200)
    => \E i \in 1..Len(list_models) :
          /\ list_models[i].version = response.version
          /\ list_models[i].stage = response.promoted_to


\* ------------------------------------------------------------------------
\* Properties of persistence
\* ------------------------------------------------------------------------

\* C11: when a training run completes, a registry entry is created for its
\* artifact: every persisted artifact has a registry entry of its own, so
\* the registry lists at least as many entries as there are artifacts.
C11_TrainingCreatesRegistryEntry ==
    Cardinality(artifacts) <= Len(list_models)

\* C12: the artifact write at the end of train() is atomic for readers: at
\* no time does the artifact path hold a partly written bundle.
C12_ArtifactWriteAtomic ==
    partial_files = {}

\* C13: an artifact is written only after all 5 targets have been fitted in
\* its run, and holds an ensemble of that run for each of the 5 targets, the
\* frozen feature-column list, the feature engineer, the metrics of the 5
\* targets, the run id and the trained-at timestamp.
C13_ArtifactComplete ==
    \A a \in artifacts :
        /\ \A t \in Targets : a.models[t] = [run |-> a.run_id, target |-> t]
        /\ a.feature_columns # <<>>
        /\ a.feature_columns = prepare_features(generate_synthetic_training_data(1), "temp_max").feature_cols
        /\ a.feature_engineer = "WeatherFeatureEngineer"
        /\ a.metrics = Targets
        /\ a.run_id \in 1..mlflow_runs
        /\ a.trained_at = Now

C13_Witness ==
    /\ t_result = "ok"
    /\ \E a \in artifacts : a.run_id = run_id /\ a.run_id = MaxRuns

\* ------------------------------------------------------------------------
\* Properties of the validation gate
\* ------------------------------------------------------------------------

C16_FeatureColumnsSameForAllTargets ==
    \A t \in Targets :
        fe_prep[t].status = "ok" =>
            /\ DateCol \notin Range(fe_prep[t].feature_cols)
            /\ \A u \in Targets : Raw(u) \notin Range(fe_prep[t].feature_cols)
            /\ \A u \in Targets :
                   fe_prep[u].status = "ok" => fe_prep[u].feature_cols = fe_prep[t].feature_cols

C16_Witness ==
    /\ \A t \in Targets : fe_prep[t].status = "ok"
    /\ Len(fe_prep["temp_max"].feature_cols) > 0
    /\ Len(fe_prep["temp_max"].rows) > 0

\* C17: every ensemble train() builds has exactly 3 sub-models with
\* weights 0.4, 0.4, 0.2 (sum 1), and its prediction is the average of the
\* sub-model outputs under these weights: outputs 1, 2, 3 give 1.8.
C17_EnsembleWeightedAverage ==
    /\ ensemble # NoVotingRegressor =>
           /\ Len(ensemble.estimators) = 3
           /\ ensemble.weights = <<4, 4, 2>>
           /\ ensemble.weights[1] + ensemble.weights[2] + ensemble.weights[3] = 10
    /\ y_pred # -1 =>
           /\ 10 * y_pred = 4 * stub_outputs[1] + 4 * stub_outputs[2] + 2 * stub_outputs[3]
           /\ stub_outputs = <<10, 20, 30>> => y_pred = 18

C17_Witness ==
    /\ stub_outputs = <<10, 20, 30>>
    /\ y_pred = 18

\* ------------------------------------------------------------------------
\* Properties of repeated forecasts
\* ------------------------------------------------------------------------

\* two consecutive finished predict calls on the same model, with the same
\* seed (carrying a date) and the same horizon, have the same outcome and
\* return the same entries
C18_SameOutput ==
    (/\ PredictEnded
     /\ prev_call.done
     /\ prev_call.models = models
     /\ prev_call.feature_columns = feature_columns
     /\ prev_call.features = features
     /\ "date" \in Range(features)
     /\ prev_call.forecast_days = forecast_days)
        => /\ prev_call.p_result = p_result
           /\ prev_call.forecasts = forecasts

\* no step of predict changes the ensembles or the feature-column list, and
\* no step after the call has begun changes the caller's seed
C18_NoStateCarried ==
    PredictAction =>
        /\ UNCHANGED <<models, feature_columns>>
        /\ pc = "predict" => UNCHANGED features

C19_ForecastRequestValidation ==
    response.endpoint = "forecast" =>
        LET req == response.request
            d_ok == req.days \in 1..14
            lat_ok == req.latitude # Missing /\ req.latitude \in -90..90
            lon_ok == req.longitude # Missing /\ req.longitude \in -180..180
        IN  IF d_ok /\ lat_ok /\ lon_ok
            THEN response.status = 200 /\ Len(response.forecast) = req.days
            ELSE response.status = 422 /\ response.forecast = <<>>

C19_Witness ==
    /\ response.endpoint = "forecast"
    /\ response.status = 200
    /\ response.request.days = 14
    /\ response.request.latitude = 90
    /\ Len(response.forecast) = 14

\* C20: every daily entry of every forecast response, from either forecast
\* endpoint, in either unit system and at any latitude, has
\* temperature_max >= temperature_min, 0 <= humidity <= 100,
\* precipitation_mm >= 0 and 0 <= confidence_score <= 1.
C20_DailyEntryInvariants ==
    response.endpoint \in {"forecast", "city"} =>
        \A i \in 1..Len(response.forecast) :
            LET e == response.forecast[i]
            IN  /\ e.temperature_max >= e.temperature_min
                /\ e.humidity >= 0 /\ e.humidity <= 1000
                /\ e.precipitation_mm >= 0
                /\ e.confidence_score >= 0 /\ e.confidence_score <= 1000

C20_Witness ==
    /\ response.endpoint = "city"
    /\ response.status = 200
    /\ response.request.units = "imperial"
    /\ Len(response.forecast) = 15
    /\ response.forecast[15].precipitation_mm = 0
    /\ response.forecast[15].temperature_max > response.forecast[15].temperature_min

\* ------------------------------------------------------------------------
\* Properties of missing columns
\* ------------------------------------------------------------------------

\* C21: engineer_features fails exactly when the input has no date column;
\* with a date it returns a frame that keeps the input columns, has the
\* twelve temporal columns, has the lag and rolling columns of exactly the
\* weather columns present, and has each derived index exactly when both of
\* its source columns are present.
C21_OnlyMissingDateFails ==
    fe_out.status # "none" =>
        /\ fe_out.status = "KeyError" <=> ~HasCol(fe_in.cols, "date")
        /\ fe_out.status \in {"ok", "KeyError"}
        /\ fe_out.status = "ok" =>
            LET out == Range(fe_out.cols)
                has(c) == Raw(c) \in Range(fe_in.cols)
            IN  /\ Range(fe_in.cols) \subseteq out
                /\ \A t \in Range(temporal_names) : <<"temporal", t, 0>> \in out
                /\ \A c \in Range(weather_cols) :
                       /\ \A k \in {1, 2, 3, 7} : <<"lag", c, k>> \in out <=> has(c)
                       /\ \A w \in {3, 7, 14} :
                              \A s \in {"roll_mean", "roll_std", "roll_max", "roll_min"} :
                                  <<s, c, w>> \in out <=> has(c)
                /\ <<"index", "heat_index", 0>> \in out <=> (has("temp_max") /\ has("humidity"))
                /\ <<"index", "temp_range", 0>> \in out <=> (has("temp_max") /\ has("temp_min"))
                /\ <<"index", "temp_avg", 0>> \in out <=> (has("temp_max") /\ has("temp_min"))
                /\ <<"index", "wind_chill", 0>> \in out <=> (has("temp_min") /\ has("wind_speed"))

C21_Witness ==
    /\ fe_out.status = "ok"
    /\ HasCol(fe_in.cols, "date")
    /\ ~HasCol(fe_in.cols, "wind_speed")
    /\ HasCol(fe_in.cols, "temp_min")
    /\ <<"index", "wind_chill", 0>> \notin Range(fe_out.cols)
    /\ <<"index", "heat_index", 0>> \in Range(fe_out.cols)
    /\ Len(fe_out.rows) > 0

\* ------------------------------------------------------------------------
\* Properties of the recursive forecast and of repeated training
\* ------------------------------------------------------------------------

\* C22: a predict call with horizon N on a fully trained model and a dated
\* seed goes through steps 1..N and ends with a history of N+1 rows: the
\* seed, then one row per generated day, each dated one day after the row
\* before it, carrying that day's predictions in the target fields and the
\* seed's values in every other field.
C22_HistoryGrowsOneRowPerStep ==
    (/\ PredictEnded
     /\ FullyTrained
     /\ "date" \in Range(features)
     /\ forecast_days \in 1..14)
    => (/\ Len(current_data.rows) = forecast_days + 1
        /\ \A i \in 2..Len(current_data.rows) :
              /\ current_data.rows[i].date = current_data.rows[i - 1].date + 1
              /\ \A t \in Targets :
                     current_data.rows[i].val[t] = forecasts[i - 1].val[t]
              /\ \A c \in ValueNames \ Targets :
                     current_data.rows[i].val[c] = current_data.rows[1].val[c])

\* C23: whenever no train() call is in progress, all ensembles held in
\* models were fitted by one and the same training run.
C23_ModelsFromOneRun ==
    pc \in {"idle", "predict"} =>
        \A t \in Targets : \A u \in Targets :
            (models[t] # NoEnsemble /\ models[u] # NoEnsemble)
                => models[t].run = models[u].run

\* ------------------------------------------------------------------------
\* Properties of the registry object, of the horizon and of the summary
\* ------------------------------------------------------------------------

\* C24: whenever the installed registry reports is_loaded, it holds a model
\* and ModelRegistry.predict does not raise 'No model loaded'.
C24_LoadedMeansModelHeld ==
    (app_state_model_registry /\ is_loaded)
        => (current_model # "None" /\ ModelRegistry_predict # "No model loaded")

\* C25: no forecast response served with status 200, from POST
\* /api/v1/forecast/ or from GET /api/v1/forecast/locations/{city}, has
\* fewer than 1 or more than 14 daily entries.
C25_HorizonBoundEverywhere ==
    (response.endpoint \in {"forecast", "city"} /\ response.status = 200)
        => Len(response.forecast) \in 1..14

====
